---- MODULE Spec2Model ----
(***************************************************************************)
(* cryptdir: a source directory tree is mirrored into an encrypted,        *)
(* content-addressed store (CryptDir.encrypt) and restored from it         *)
(* (CryptDir.decrypt).  The model follows src/src/cryptDir.mjs,            *)
(* FSDirectory (second half of src/src/log.mjs) and AESFileCryptor         *)
(* (src/unnamed/part_003).  encDir is the second argument of the           *)
(* constructor and lies outside srcDir.  CryptorSpec looks at one          *)
(* AESFileCryptor stream by stream; FaultSpec adds damaged blobs and a     *)
(* wrong master password to Spec.  LockSpec, FilterSpec and LifetimeSpec   *)
(* are encrypt runs only: with lock files in srcDir, with the --filter     *)
(* option of the command line, and with the encryptions counted.           *)
(***************************************************************************)
EXTENDS Integers, Sequences, FiniteSets, TLC

\* ------------------------------------------------------------------ bounds
\* number of uuids that can be in use at one time
MaxIds == 3
\* file contents are the byte strings 0..MaxContent (0 is the empty file)
MaxContent == 1
\* number of distinct master passwords a caller may pass
MaxPwds == 2
\* number of encrypt / decrypt calls made on one CryptDir instance
MaxCalls == 2
\* number of dirents an FSDirectory may come to hold
MaxDirents == 3
\* the encryptions of one content are counted up to this number
MaxCount == 2

\* ------------------------------------------------------------- vocabulary
\* NIL uuid: the file name of the encrypted FSDirectory inside encDir
NilUuid == 0
\* JavaScript's undefined for a dirent without fileId
Undefined == -1
\* the content of a file that was opened for writing and received no byte
EmptyContent == 0

Ids == 1..MaxIds
Contents == 0..MaxContent
MasterPwds == {<<"master", n>> : n \in 1..MaxPwds}

\* the names of the entries of srcDir: two files, a directory, and the lock
\* file an office suite keeps next to an open document
FileLocs == {"a", "b"}
DirLocs == {"d"}
LockLocs == {".~lock.a#"}
\* a file next to the default encDir whose name begins with encDir's
SiblingLocs == {".cryptdir2"}
\* a file whose name differs from another's in letter case only
CaseLocs == {"A"}
\* a directory whose name begins as a lock file's
LockDirLocs == {".~lock.d#"}
\* files in the directories
NestedLocs == {".~lock.d#/a", "d/a"}
Locs == FileLocs \cup DirLocs \cup LockLocs \cup SiblingLocs \cup CaseLocs
            \cup LockDirLocs \cup NestedLocs

\* the directory of srcDir an entry is in, "" for srcDir itself
ParentOf(loc) ==
    CASE loc = ".~lock.d#/a" -> ".~lock.d#"
      [] loc = "d/a" -> "d"
      [] OTHER -> ""

\* defaultEncDir, as path.join(srcDir, defaultEncDir); what readdirSync
\* lists of it: the directory, and the files in it
defaultEncDir == ".cryptdir"
EncDirEntries == {".cryptdir", ".cryptdir/*"}
\* an encDir argument: a directory that is not below srcDir
ExplicitEncDir == "<encDir>"

\* defaultNameFilters
defaultNameFilters == {".~lock."}

\* dirent.name.startsWith(prefix), on the names of Locs
StartsWith(name, prefix) ==
    prefix = ".~lock." /\ name \in LockLocs \cup LockDirLocs

NoEnt == [kind |-> "none", data |-> EmptyContent]
DirEnt == [kind |-> "dir", data |-> EmptyContent]
FileEnt(c) == [kind |-> "file", data |-> c]

NoBlob == [present |-> FALSE, key |-> <<"none", <<"none", 0>>>>, data |-> EmptyContent]
EmptyEntries == [dirents |-> <<>>, files |-> <<>>]
NoManifest == [present |-> FALSE, key |-> <<"none", <<"none", 0>>>>, data |-> EmptyEntries]

VARIABLES
    sep,            \* path.sep of the host: "\\" or "/"
    encDir,         \* CryptDir.encDir: the second argument, or the default
    enumeration,    \* the order in which the filesystem enumerates names
    srcExists,      \* fs.existsSync(srcDir)
    fs,             \* the tree below srcDir: Locs -> NoEnt | DirEnt | FileEnt(c)
    encExists,      \* fs.existsSync(encDir)
    manifestBlob,   \* the file encDir/<NIL uuid>
    blobs,          \* the files encDir/<fileId>
    fsDirectory,    \* CryptDir.fsDirectory (instance field)
    currDirectory,  \* encrypt's local currDirectory
    srcDirents,     \* encrypt's local srcDirents
    cursor,         \* position of the for..of loop of encrypt / decrypt
    pc,             \* where the engine is
    masterPwd,      \* the masterPwd argument of the running call
    log,            \* lines passed to log() by the running / last call
    written,        \* encDir files written by the running / last call
    removed,        \* encDir files deleted by the running / last call
    touched,        \* srcDir entries written by the running / last call
    calls,          \* number of calls made on this CryptDir instance
    delta,          \* history: what happened to srcDir since encrypt last completed
    collapsed,      \* history: encrypt has run over an empty or a missing srcDir
    opts,           \* the options the last encrypt call was given
    encryptions,    \* history: how often each content was encrypted into encDir
    op              \* one AESFileCryptor and the file it works on, stream by stream

vars == <<sep, encDir, enumeration, srcExists, fs, encExists, manifestBlob, blobs, fsDirectory,
          currDirectory, srcDirents, cursor, pc, masterPwd, log, written,
          removed, touched, calls, delta, collapsed, opts, encryptions, op>>

fsVars == <<srcExists, fs>>
storeVars == <<encExists, manifestBlob, blobs>>
runVars == <<currDirectory, srcDirents, cursor, masterPwd, log, written, removed, touched>>

\* --------------------------------------------------------------- cryptoUtils
\* sha256 of the file's bytes: collision free on the modelled contents
calcFileHash(c) == <<"sha256", c>>

\* generatePwd(): 48 random characters, a new secret with every new uuid
generatePwd(fileId) == <<"pwd", fileId>>

\* ------------------------------------------------------------ AESFileCryptor
\* #getCipherKey: sha256 of the password
getCipherKey(password) == <<"sha256", password>>

\* what encryptStreamToFile leaves at tgtFile: iv, then aes256(gzip(data))
encryptStreamToFile(password, data) ==
    [present |-> TRUE, key |-> getCipherKey(password), data |-> data]

\* decipher + unzip of an existing blob succeed only under the blob's key
CanDecrypt(password, blob) ==
    blob.key = getCipherKey(password)

\* --------------------------------------------------------------- FSDirectory
\* dirents.find(dirent => dirent.path === path), 0 when there is none
IndexOfPath(dirents, path) ==
    IF \E i \in 1..Len(dirents) : dirents[i].path = path
    THEN CHOOSE i \in 1..Len(dirents) :
            /\ dirents[i].path = path
            /\ \A j \in 1..(i - 1) : dirents[j].path # path
    ELSE 0

findDirent(dir, path) == IndexOfPath(dir.dirents, path)

\* files.find(file => file.fileHash === fileHash), 0 when there is none
findFileByHash(dir, fileHash) ==
    IF \E i \in 1..Len(dir.files) : dir.files[i].fileHash = fileHash
    THEN CHOOSE i \in 1..Len(dir.files) :
            /\ dir.files[i].fileHash = fileHash
            /\ \A j \in 1..(i - 1) : dir.files[j].fileHash # fileHash
    ELSE 0

\* files.find(file => file.fileId === fileId), 0 when there is none
findFileById(dir, fileId) ==
    IF \E i \in 1..Len(dir.files) : dir.files[i].fileId = fileId
    THEN CHOOSE i \in 1..Len(dir.files) :
            /\ dir.files[i].fileId = fileId
            /\ \A j \in 1..(i - 1) : dir.files[j].fileId # fileId
    ELSE 0

\* addEntry without its push of the file
addEntry_NoFile(dir, path, fileParams) ==
    [dirents |-> Append(dir.dirents,
                        [path |-> path,
                         fileId |-> IF Len(fileParams) >= 1 THEN fileParams[1] ELSE Undefined]),
     files |-> dir.files]

\* addEntry(path, fileId, file); fileParams is <<>>, <<fileId>> or <<fileId, file>>
addEntry(dir, path, fileParams) ==
    [dirents |-> Append(dir.dirents,
                        [path |-> path,
                         fileId |-> IF Len(fileParams) >= 1 THEN fileParams[1] ELSE Undefined]),
     files |-> IF Len(fileParams) = 2 THEN Append(dir.files, fileParams[2]) ELSE dir.files]

\* getObsoleteDirents: the dirents of directory that this one does not hold
getObsoleteDirents(this, directory) ==
    SelectSeq(directory.dirents,
              LAMBDA dirent : ~ \E i \in 1..Len(this.dirents) :
                    /\ this.dirents[i].path = dirent.path
                    /\ this.dirents[i].fileId = dirent.fileId)

\* JSON.stringify of an array of dirents: a directory has no fileId key
Stringify(dirents) ==
    [i \in 1..Len(dirents) |->
        IF dirents[i].fileId = Undefined
        THEN <<"path", dirents[i].path>>
        ELSE <<"path", dirents[i].path, "fileId", dirents[i].fileId>>]

\* equals(dirents) that compares the number of dirents
equals_Length(this, dirents) ==
    Len(dirents) = Len(this.dirents)

\* equals(dirents): compares the serialised dirents only
equals(this, dirents) ==
    Stringify(dirents) = Stringify(this.dirents)

\* ------------------------------------------------------------------ CryptDir
\* #getRelativePath: fullName.replace(srcDir + '\\', ''); a path is
\* <<n, loc>>: loc behind n copies of srcDir joined with path.sep
getRelativePath(fullName) ==
    IF sep = "\\" /\ fullName[1] >= 1
    THEN <<fullName[1] - 1, fullName[2]>>
    ELSE fullName

\* path.join(srcDir, p)
JoinSrcDir(p) == <<p[1] + 1, p[2]>>

\* the entry below srcDir a full name denotes, if it denotes one
IsInTree(fullName) == fullName[1] = 1

\* localeCompare(..., {numeric, sensitivity: 'base'}) on the full names
SortRank(loc) ==
    CASE loc \in LockLocs -> 0
      [] loc = ".~lock.d#" -> 1
      [] loc = ".~lock.d#/a" -> 2
      [] loc = ".cryptdir" -> 3
      [] loc = ".cryptdir/*" -> 4
      [] loc = ".cryptdir2" -> 5
      [] loc = "A" -> 6
      [] loc = "a" -> 6
      [] loc = "b" -> 7
      [] loc = "d" -> 8
      [] loc = "d/a" -> 9

\* two orders a filesystem enumerates the names of a directory in
Enumerations ==
    {<<".~lock.a#", "A", "a", "b", "d", "d/a", ".cryptdir", ".cryptdir/*", ".cryptdir2",
       ".~lock.d#", ".~lock.d#/a">>,
     <<".~lock.d#/a", ".~lock.d#", ".cryptdir2", ".cryptdir/*", ".cryptdir", "d/a", "d",
       "b", "a", "A", ".~lock.a#">>}

\* the place of a name in an enumeration
PlaceIn(e, name) == CHOOSE i \in 1..Len(e) : e[i] = name

\* Array.prototype.sort with that comparison over the names as enumerated:
\* the sort is stable, names that compare equal stay as they were enumerated
RECURSIVE SortBy(_, _)
SortBy(S, e) ==
    IF S = {} THEN <<>>
    ELSE LET m == CHOOSE x \in S : \A y \in S :
                    \/ SortRank(x) < SortRank(y)
                    \/ SortRank(x) = SortRank(y) /\ PlaceIn(e, x) <= PlaceIn(e, y)
         IN  <<m>> \o SortBy(S \ {m}, e)

SortLocs(S) == SortBy(S, enumeration)

\* #filterDirentByName with an empty list of filters: no name is filtered
filterDirentByName_Nothing(name) == FALSE

\* #filterDirentByName: the name starts with one of defaultNameFilters
filterDirentByName(name) ==
    \E nameFilter \in defaultNameFilters : StartsWith(name, nameFilter)

\* fs.readdirSync(srcDir, { recursive: true }): the entries of srcDir, those
\* of an encDir below srcDir among them
readdirSync ==
    {l \in Locs : fs[l].kind # "none"}
        \cup (IF encDir = defaultEncDir /\ encExists
              THEN {e \in EncDirEntries :
                        \/ e = defaultEncDir
                        \/ manifestBlob.present
                        \/ \E i \in Ids : blobs[i].present}
              ELSE {})

\* getName(dirent).startsWith(this.encDir), on the full names of the listing
StartsWithEncDir(name) ==
    encDir = defaultEncDir /\ name \in EncDirEntries \cup SiblingLocs

\* #getSrcDirents without its fs.existsSync test: a missing srcDir is listed
\* as an empty one
getSrcDirents_Unchecked ==
    [listed |-> TRUE,
     dirents |-> SelectSeq(SortLocs(readdirSync),
                           LAMBDA l : ~StartsWithEncDir(l) /\ ~filterDirentByName(l))]

\* #getSrcDirents: the sorted listing without the filtered names; listed is
\* FALSE when srcDir is missing and the method returns undefined
getSrcDirents ==
    IF srcExists
    THEN [listed |-> TRUE,
          dirents |-> SelectSeq(SortLocs(readdirSync),
                                LAMBDA l : ~StartsWithEncDir(l) /\ ~filterDirentByName(l))]
    ELSE [listed |-> FALSE, dirents |-> <<>>]

\* --------------------------------------------------- the filter option
\* the option is not given: new RegExp('') matches every name
NoFilter == ""

\* the regular expression patterns a caller passes with --filter
Patterns == {"a", "b|d"}

\* new RegExp(pattern).test(name), on the names of Locs
RegExpTest(pattern, name) ==
    \/ pattern = NoFilter
    \/ pattern = "a" /\ name \in {"a", ".~lock.a#"}
    \/ pattern = "b|d" /\ name \in {"b", "d"}

\* the opts argument of encrypt
NoOpts == [filter |-> NoFilter]
Opts == {[filter |-> p] : p \in Patterns \cup {NoFilter}}

\* the listing of an encrypt call that ignores its options
getSrcDirentsOpts_Ignored(o) == getSrcDirents

\* the listing of an encrypt call: #getSrcDirents, narrowed to the entries
\* the filter pattern matches
getSrcDirentsOpts(o) ==
    [listed |-> getSrcDirents.listed,
     dirents |-> SelectSeq(getSrcDirents.dirents,
                           LAMBDA l : RegExpTest(o.filter, l))]

LogLine(msg, kind, path) == [msg |-> msg, kind |-> kind, path |-> path]
NoPath == <<0, "">>

\* ------------------------------------------------------------------- Init
NoRun ==
    /\ currDirectory = EmptyEntries
    /\ srcDirents = <<>>
    /\ cursor = 0
    /\ masterPwd = <<"master", 0>>
    /\ log = <<>>
    /\ written = {}
    /\ removed = {}
    /\ touched = {}

\* no AESFileCryptor is looked at on its own
NoOp ==
    [stage |-> "none", password |-> <<"master", 0>>, content |-> <<>>,
     present |-> FALSE, file |-> <<>>, decPassword |-> <<"master", 0>>,
     out |-> <<>>, outcome |-> "pending", said |-> FALSE]

\* the history of encryptions is not kept: the counters are where they stop
Uncounted == [c \in Contents |-> MaxCount]

\* new CryptDir(srcDir, encDir) on a host with an empty srcDir and no encDir
CryptDirInit ==
    /\ sep \in {"\\", "/"}
    /\ enumeration = CHOOSE e \in Enumerations : e[1] \in LockLocs
    /\ srcExists = TRUE
    /\ fs = [l \in Locs |-> NoEnt]
    /\ encExists = FALSE
    /\ manifestBlob = NoManifest
    /\ blobs = [i \in Ids |-> NoBlob]
    /\ fsDirectory = EmptyEntries
    /\ pc = "idle"
    /\ calls = 0
    /\ delta = [kind |-> "unsynced", loc |-> "", old |-> EmptyContent]
    /\ collapsed = FALSE
    /\ opts = NoOpts
    /\ NoRun

Init ==
    /\ CryptDirInit
    /\ encDir = ExplicitEncDir
    /\ encryptions = Uncounted
    /\ op = NoOp

\* no call of the engine is running
Quiet == pc \in {"idle", "encrypted", "decrypted"}

\* what an environment step leaves of the last call: nothing
Forget ==
    /\ pc' = "idle"
    /\ currDirectory' = EmptyEntries
    /\ srcDirents' = <<>>
    /\ cursor' = 0
    /\ masterPwd' = <<"master", 0>>
    /\ log' = <<>>
    /\ written' = {}
    /\ removed' = {}
    /\ touched' = {}

\* ------------------------------------------------------------------ history
\* delta.kind is "unsynced" until an encrypt call completes and "none" when
\* one has; from "none", changing the bytes of one file makes it "modified"
\* and removing one file "removed" (loc: the file, old: its content before);
\* anything else, or anything more, makes it "many"
Synced == [kind |-> "none", loc |-> "", old |-> EmptyContent]

Changed(kind, loc, old) ==
    IF delta.kind = "unsynced" THEN delta
    ELSE IF delta.kind = "none" THEN [kind |-> kind, loc |-> loc, old |-> old]
    ELSE [kind |-> "many", loc |-> "", old |-> EmptyContent]

\* ------------------------------------------------------------ environment
\* the directory an entry is in is there: srcDir, or a directory of it
ParentIsDir(loc) ==
    IF ParentOf(loc) = "" THEN TRUE ELSE fs[ParentOf(loc)].kind = "dir"

\* the user creates a file or changes its bytes
EnvWriteFile(loc, c) ==
    /\ Quiet
    /\ srcExists
    /\ ParentIsDir(loc)
    /\ fs[loc] # FileEnt(c)
    /\ fs' = [fs EXCEPT ![loc] = FileEnt(c)]
    /\ delta' = IF fs[loc].kind = "file"
                THEN Changed("modified", loc, fs[loc].data)
                ELSE Changed("many", "", EmptyContent)
    /\ Forget
    /\ UNCHANGED <<sep, encDir, enumeration, opts, encryptions, op, collapsed, srcExists, storeVars, fsDirectory, calls>>

\* the user creates a directory
EnvMkDir(loc) ==
    /\ Quiet
    /\ srcExists
    /\ ParentIsDir(loc)
    /\ fs[loc].kind = "none"
    /\ fs' = [fs EXCEPT ![loc] = DirEnt]
    /\ delta' = Changed("many", "", EmptyContent)
    /\ Forget
    /\ UNCHANGED <<sep, encDir, enumeration, opts, encryptions, op, collapsed, srcExists, storeVars, fsDirectory, calls>>

\* the user removes a file or a directory
EnvRemove(loc) ==
    /\ Quiet
    /\ fs[loc].kind # "none"
    /\ fs' = [l \in Locs |-> IF l = loc \/ ParentOf(l) = loc THEN NoEnt ELSE fs[l]]
    /\ delta' = IF fs[loc].kind = "file"
                THEN Changed("removed", loc, fs[loc].data)
                ELSE Changed("many", "", EmptyContent)
    /\ Forget
    /\ UNCHANGED <<sep, encDir, enumeration, opts, encryptions, op, collapsed, srcExists, storeVars, fsDirectory, calls>>

\* the user removes srcDir itself, or creates it again
EnvToggleSrcDir ==
    /\ Quiet
    /\ srcExists' = ~srcExists
    /\ fs' = [l \in Locs |-> NoEnt]
    /\ delta' = Changed("many", "", EmptyContent)
    /\ Forget
    /\ UNCHANGED <<sep, encDir, enumeration, opts, encryptions, op, collapsed, storeVars, fsDirectory, calls>>

CorruptKey == <<"sha256", <<"corrupt", 0>>>>

\* a blob of a file is damaged on disk
EnvCorruptBlob(id) ==
    /\ Quiet
    /\ encExists
    /\ blobs[id].present
    /\ blobs[id].key # CorruptKey
    /\ blobs' = [blobs EXCEPT ![id].key = CorruptKey]
    /\ Forget
    /\ UNCHANGED <<sep, encDir, enumeration, opts, encryptions, op, collapsed, delta, fsVars, encExists, manifestBlob, fsDirectory, calls>>

\* the Manifest of the store comes to lack a FileObject a PathEntry names:
\* it was written by another tool, or edited, under the master password
EnvDropFileObject(i) ==
    /\ Quiet
    /\ encExists
    /\ manifestBlob.present
    /\ i \in 1..Len(manifestBlob.data.files)
    /\ manifestBlob' = [manifestBlob EXCEPT !.data.files =
            SubSeq(@, 1, i - 1) \o SubSeq(@, i + 1, Len(@))]
    /\ Forget
    /\ UNCHANGED <<sep, encDir, enumeration, opts, encryptions, op, collapsed, delta, fsVars, encExists, blobs, fsDirectory, calls>>

\* a blob of a file is gone from the store: deleted, or not yet copied
EnvRemoveBlob(id) ==
    /\ Quiet
    /\ encExists
    /\ blobs[id].present
    /\ blobs' = [blobs EXCEPT ![id] = NoBlob]
    /\ Forget
    /\ UNCHANGED <<sep, encDir, enumeration, opts, encryptions, op, collapsed, delta, fsVars, encExists, manifestBlob, fsDirectory, calls>>

\* srcDir is enumerated in another order: it was copied to another
\* filesystem, or its directory index was rebuilt
EnvReorder ==
    /\ Quiet
    /\ enumeration' \in Enumerations \ {enumeration}
    /\ Forget
    /\ UNCHANGED <<sep, encDir, opts, encryptions, op, collapsed, delta, fsVars, storeVars,
                   fsDirectory, calls>>

\* a new process, or a caller of the library, constructs a new CryptDir
NewCryptDir ==
    /\ Quiet \/ pc \in {"hung", "crashed"}
    /\ pc # "idle" \/ fsDirectory # EmptyEntries \/ calls # 0
    /\ fsDirectory' = EmptyEntries
    /\ calls' = 0
    /\ Forget
    /\ UNCHANGED <<sep, encDir, enumeration, opts, encryptions, op, collapsed, delta, fsVars, storeVars>>


\* ------------------------------------------------------- FSDirectory (i/o)
\* decryptFileToJson of encDir/<NIL uuid>: "absent" (no such file: the promise
\* resolves with ''), "ok", or "fail" (decipher or unzip emit 'error')
\* decryptFileToStream resolving on 'error' as well: a Manifest blob that
\* does not open reads as no Manifest
LoadOutcome_Lenient(pwd) ==
    IF ~(encExists /\ manifestBlob.present) THEN "absent"
    ELSE IF CanDecrypt(pwd, manifestBlob) THEN "ok"
    ELSE "absent"

LoadOutcome(pwd) ==
    IF ~(encExists /\ manifestBlob.present) THEN "absent"
    ELSE IF CanDecrypt(pwd, manifestBlob) THEN "ok"
    ELSE "fail"

\* loadEntries: every key of the decrypted object is copied onto the directory
loadEntries(dir, pwd) ==
    IF LoadOutcome(pwd) = "ok" THEN manifestBlob.data ELSE dir

\* saveToFile: whether it writes encDir/<NIL uuid>
Saves(this) == Len(this.dirents) > 0

\* -------------------------------------------------------------------- uuid
FileIdsOf(dir) ==
    {dir.files[i].fileId : i \in 1..Len(dir.files)}
        \cup {dir.dirents[i].fileId : i \in 1..Len(dir.dirents)}

\* the uuids some file of encDir or some directory object still carries
UsedIds(this, curr) ==
    {i \in Ids : blobs[i].present} \cup FileIdsOf(manifestBlob.data)
        \cup FileIdsOf(this) \cup FileIdsOf(curr)

\* getUuid(): a uuid nothing carries (uuidv4 never repeats one; a uuid that
\* is gone from every file and object is as good as a new one)
getUuid ==
    CHOOSE i \in Ids \ UsedIds(fsDirectory, currDirectory) :
        \A j \in Ids \ UsedIds(fsDirectory, currDirectory) : i <= j

\* ---------------------------------------------------------------- encrypt
\* the contents of the listing that neither fsDirectory nor the loaded
\* currDirectory knows: one uuid is drawn for each
NewHashes(this, curr, dirents) ==
    {calcFileHash(fs[dirents[i]].data) : i \in {j \in 1..Len(dirents) : fs[dirents[j]].kind = "file"}}
        \ ({this.files[i].fileHash : i \in 1..Len(this.files)}
            \cup {curr.files[i].fileHash : i \in 1..Len(curr.files)})

\* the files of encDir, by name
EncDirFiles ==
    {i \in Ids : blobs[i].present} \cup (IF manifestBlob.present THEN {NilUuid} ELSE {})

\* #loadDecEntries of encrypt or decrypt under a password that does not open
\* encDir/<NIL uuid>: decipher's 'error' is logged, unzip's is not, and the
\* promise of decryptFileToStream is never resolved
LoadEntriesHangs(pwd, said) ==
    /\ Quiet
    /\ calls < MaxCalls
    /\ LoadOutcome(pwd) = "fail"
    /\ calls' = calls + 1
    /\ masterPwd' = pwd
    /\ log' = IF said THEN <<LogLine("Incorrect password", "", NoPath)>> ELSE <<>>
    /\ pc' = "hung"
    /\ currDirectory' = EmptyEntries
    /\ srcDirents' = <<>>
    /\ cursor' = 0
    /\ written' = {}
    /\ removed' = {}
    /\ touched' = {}
    /\ UNCHANGED <<sep, encDir, enumeration, opts, encryptions, op, collapsed, delta, fsVars, storeVars, fsDirectory>>

\* encrypt, lines 45-54 and 64-69: load the previous entries, list srcDir, and
\* either start the loop, drop encDir, or report the missing srcDir
StartEncryptOpts(pwd, o) ==
    /\ Quiet
    /\ calls < MaxCalls
    /\ LoadOutcome(pwd) # "fail"
    /\ calls' = calls + 1
    /\ masterPwd' = pwd
    /\ opts' = o
    /\ written' = {}
    /\ touched' = {}
    /\ LET curr == loadEntries(EmptyEntries, pwd)
           listing == getSrcDirentsOpts(o)
       IN  /\ currDirectory' = curr
           /\ srcDirents' = listing.dirents
           /\ Len(fsDirectory.dirents) + Len(listing.dirents) <= MaxDirents
           /\ Cardinality(NewHashes(fsDirectory, curr, listing.dirents))
                <= Cardinality(Ids \ UsedIds(fsDirectory, curr))
           /\ IF ~listing.listed
              THEN /\ log' = <<LogLine("Invalid source directory", "", NoPath)>>
                   /\ pc' = "encrypted"
                   /\ cursor' = 0
                   /\ delta' = Synced
                   /\ collapsed' = TRUE
                   /\ removed' = {}
                   /\ UNCHANGED storeVars
              ELSE IF Len(listing.dirents) > 0
              THEN \* #mkdirSyncWithCheck(encDir)
                   /\ encExists' = TRUE
                   /\ log' = <<>>
                   /\ pc' = "encrypt"
                   /\ cursor' = 1
                   /\ removed' = {}
                   /\ UNCHANGED <<manifestBlob, blobs, delta, collapsed>>
              ELSE \* #rmSyncRecWithCheck(encDir)
                   /\ encExists' = FALSE
                   /\ manifestBlob' = NoManifest
                   /\ blobs' = [i \in Ids |-> NoBlob]
                   /\ log' = IF encExists
                             THEN <<LogLine("Removed directory", "", NoPath)>>
                             ELSE <<>>
                   /\ removed' = IF encExists THEN EncDirFiles ELSE {}
                   /\ pc' = "encrypted"
                   /\ cursor' = 0
                   /\ delta' = Synced
                   /\ collapsed' = TRUE
    /\ UNCHANGED <<sep, encDir, enumeration, encryptions, op, fsVars, fsDirectory>>

\* encrypt(masterPwd)
StartEncrypt(pwd) == StartEncryptOpts(pwd, NoOpts)

\* #getFileData that does not look into currDirectory
getFileData_New(curr, fileHash) ==
    [exists |-> FALSE, fileId |-> getUuid, pwd |-> generatePwd(getUuid)]

\* #getFileData: the file of currDirectory with this hash, or a new uuid and
\* a new password
getFileData(curr, fileHash) ==
    IF findFileByHash(curr, fileHash) # 0
    THEN [exists |-> TRUE,
          fileId |-> curr.files[findFileByHash(curr, fileHash)].fileId,
          pwd |-> curr.files[findFileByHash(curr, fileHash)].pwd]
    ELSE [exists |-> FALSE, fileId |-> getUuid, pwd |-> generatePwd(getUuid)]

\* #encryptFile with the AESFileCryptor of the master password
encryptFile_MasterPwd(this, curr, content) ==
    LET fileHash == calcFileHash(content)
        file == findFileByHash(this, fileHash)
    IN  IF file = 0
        THEN LET data == getFileData(curr, fileHash)
             IN  [fileParams |-> <<data.fileId,
                                   [fileId |-> data.fileId, fileHash |-> fileHash, pwd |-> data.pwd]>>,
                  encrypts |-> ~data.exists,
                  pwd |-> masterPwd]
        ELSE [fileParams |-> <<this.files[file].fileId>>,
              encrypts |-> FALSE,
              pwd |-> masterPwd]

\* #encryptFile: the fileParams, and whether and under which password the
\* file is encrypted into encDir
encryptFile(this, curr, content) ==
    LET fileHash == calcFileHash(content)
        file == findFileByHash(this, fileHash)
    IN  IF file = 0
        THEN LET data == getFileData(curr, fileHash)
             IN  [fileParams |-> <<data.fileId,
                                   [fileId |-> data.fileId, fileHash |-> fileHash, pwd |-> data.pwd]>>,
                  encrypts |-> ~data.exists,
                  pwd |-> data.pwd]
        ELSE [fileParams |-> <<this.files[file].fileId>>,
              encrypts |-> FALSE,
              pwd |-> this.files[file].pwd]

\* #logDirentEncryption
logDirentEncryption(path, isDir, fileParams, curr) ==
    LET fileId == IF Len(fileParams) >= 1 THEN fileParams[1] ELSE Undefined
        dirent == findDirent(curr, path)
        kind == IF isDir THEN "directory" ELSE "file"
    IN  IF dirent = 0 THEN <<LogLine("Added", kind, path)>>
        ELSE IF curr.dirents[dirent].fileId # fileId THEN <<LogLine("Updated", kind, path)>>
        ELSE <<>>

\* #encryptDirent, one pass of the loop of encrypt
EncryptDirent ==
    /\ pc = "encrypt"
    /\ cursor <= Len(srcDirents)
    /\ LET loc == srcDirents[cursor]
           relativePath == getRelativePath(<<1, loc>>)
           isDirectory == fs[loc].kind = "dir"
           enc == encryptFile(fsDirectory, currDirectory, fs[loc].data)
           fileParams == IF isDirectory THEN <<>> ELSE enc.fileParams
       IN  /\ IF ~isDirectory /\ enc.encrypts
              THEN /\ blobs' = [blobs EXCEPT ![fileParams[1]] =
                                    encryptStreamToFile(enc.pwd, fs[loc].data)]
                   /\ written' = written \cup {fileParams[1]}
                   /\ encryptions' = [encryptions EXCEPT ![fs[loc].data] =
                                            IF @ < MaxCount THEN @ + 1 ELSE @]
              ELSE UNCHANGED <<blobs, written, encryptions>>
           /\ fsDirectory' = addEntry(fsDirectory, relativePath, fileParams)
           /\ log' = log \o logDirentEncryption(relativePath, isDirectory, fileParams, currDirectory)
    /\ cursor' = cursor + 1
    /\ UNCHANGED <<sep, encDir, enumeration, opts, op, collapsed, delta, fsVars, encExists, manifestBlob, currDirectory, srcDirents, pc,
                   masterPwd, removed, touched, calls>>

\* #removeObsoleteDirents without its findFileById test: the blob of every
\* obsolete dirent is deleted, referenced or not
ObsoleteBlobs_Unchecked(this, curr) ==
    LET obsolete == getObsoleteDirents(this, curr)
    IN  {obsolete[i].fileId : i \in {j \in 1..Len(obsolete) :
            /\ obsolete[j].fileId # Undefined
            /\ blobs[obsolete[j].fileId].present}}

\* #removeObsoleteDirents: the blobs it deletes
ObsoleteBlobs(this, curr) ==
    LET obsolete == getObsoleteDirents(this, curr)
    IN  {obsolete[i].fileId : i \in {j \in 1..Len(obsolete) :
            /\ obsolete[j].fileId # Undefined
            /\ findFileById(this, obsolete[j].fileId) = 0
            /\ blobs[obsolete[j].fileId].present}}

\* #removeObsoleteDirents: the lines it logs
RECURSIVE RemovedLines(_, _)
RemovedLines(this, obsolete) ==
    IF obsolete = <<>> THEN <<>>
    ELSE LET dirent == Head(obsolete)
             isDir == dirent.fileId = Undefined
         IN  (IF isDir \/ findDirent(this, dirent.path) = 0
              THEN <<LogLine("Removed", IF isDir THEN "directory" ELSE "file", dirent.path)>>
              ELSE <<>>) \o RemovedLines(this, Tail(obsolete))

\* encrypt, lines 59-63: after the loop
FinishEncrypt ==
    /\ pc = "encrypt"
    /\ cursor > Len(srcDirents)
    /\ blobs' = [i \in Ids |-> IF i \in ObsoleteBlobs(fsDirectory, currDirectory)
                                THEN NoBlob ELSE blobs[i]]
    /\ removed' = removed \cup ObsoleteBlobs(fsDirectory, currDirectory)
    /\ log' = log \o RemovedLines(fsDirectory, getObsoleteDirents(fsDirectory, currDirectory))
    /\ IF ~equals(fsDirectory, currDirectory.dirents) /\ Saves(fsDirectory)
       THEN /\ manifestBlob' = encryptStreamToFile(masterPwd, fsDirectory)
            /\ written' = written \cup {NilUuid}
       ELSE UNCHANGED <<manifestBlob, written>>
    /\ pc' = "encrypted"
    /\ delta' = Synced
    /\ UNCHANGED <<sep, encDir, enumeration, opts, encryptions, op, collapsed, fsVars, encExists, fsDirectory, currDirectory, srcDirents, cursor,
                   masterPwd, touched, calls>>

\* ---------------------------------------------------------------- decrypt
\* decrypt, line 78: load the entries into fsDirectory and start the loop
StartDecrypt(pwd) ==
    /\ Quiet
    /\ calls < MaxCalls
    /\ LoadOutcome(pwd) # "fail"
    /\ calls' = calls + 1
    /\ masterPwd' = pwd
    /\ fsDirectory' = loadEntries(fsDirectory, pwd)
    /\ currDirectory' = EmptyEntries
    /\ srcDirents' = <<>>
    /\ log' = <<>>
    /\ written' = {}
    /\ removed' = {}
    /\ touched' = {}
    /\ pc' = "decrypt"
    /\ cursor' = 1
    /\ UNCHANGED <<sep, encDir, enumeration, opts, encryptions, op, collapsed, delta, fsVars, storeVars>>

\* fs.existsSync(fullName)
existsSync(fullName) ==
    IsInTree(fullName) /\ fs[fullName[2]].kind # "none"

\* whether the directory fullName is to be created in exists: it is srcDir
ParentExists(fullName) ==
    IsInTree(fullName) /\ srcExists /\ ParentIsDir(fullName[2])

\* decryptFileToStream on encDir/<fileId>: "absent" (resolves at once),
\* "ok", or "fail" (never resolves)
BlobOutcome(file) ==
    IF ~(encExists /\ blobs[file.fileId].present) THEN "absent"
    ELSE IF CanDecrypt(file.pwd, blobs[file.fileId]) THEN "ok"
    ELSE "fail"

\* #decryptFile with === for !==: decrypts the files that are already there
Decrypts_Inverted(file, exists, fullName) ==
    ~exists \/ file.fileHash = calcFileHash(fs[fullName[2]].data)

\* #decryptFile: whether the file is decrypted to fullName
Decrypts(file, exists, fullName) ==
    ~exists \/ file.fileHash # calcFileHash(fs[fullName[2]].data)

\* the loop of decrypt without `if (file)`: a fileId no file carries is fatal
DirentStep_Fatal(dirent) ==
    LET fullName == JoinSrcDir(dirent.path)
        exists == existsSync(fullName)
        file == findFileById(fsDirectory, dirent.fileId)
    IN  IF dirent.fileId # Undefined
        THEN IF file = 0 THEN "throw"
             ELSE IF ~Decrypts(fsDirectory.files[file], exists, fullName) THEN "skip"
             ELSE IF ~ParentExists(fullName) THEN "throw"
             ELSE BlobOutcome(fsDirectory.files[file])
        ELSE IF exists THEN "skip"
             ELSE IF ~ParentExists(fullName) THEN "throw"
             ELSE "mkdir"

\* what one pass of the loop of decrypt does with a dirent
DirentStep(dirent) ==
    LET fullName == JoinSrcDir(dirent.path)
        exists == existsSync(fullName)
        file == findFileById(fsDirectory, dirent.fileId)
    IN  IF dirent.fileId # Undefined
        THEN IF file = 0 THEN "skip"
             ELSE IF ~Decrypts(fsDirectory.files[file], exists, fullName) THEN "skip"
             ELSE IF ~ParentExists(fullName) THEN "throw"
             ELSE BlobOutcome(fsDirectory.files[file])
        ELSE IF exists THEN "skip"
             ELSE IF ~ParentExists(fullName) THEN "throw"
             ELSE "mkdir"

\* decrypt, lines 80-97: one pass of the loop that runs to its end
DecryptDirent ==
    /\ pc = "decrypt"
    /\ cursor <= Len(fsDirectory.dirents)
    /\ LET dirent == fsDirectory.dirents[cursor]
           fullName == JoinSrcDir(dirent.path)
           relativePath == getRelativePath(fullName)
           loc == fullName[2]
           step == DirentStep(dirent)
       IN  /\ step \in {"skip", "mkdir", "absent", "ok"}
           /\ fs' = CASE step = "mkdir" -> [fs EXCEPT ![loc] = DirEnt]
                      [] step = "absent" -> [fs EXCEPT ![loc] = FileEnt(EmptyContent)]
                      [] step = "ok" ->
                            [fs EXCEPT ![loc] = FileEnt(blobs[dirent.fileId].data)]
                      [] OTHER -> fs
           /\ touched' = IF step = "skip" THEN touched ELSE touched \cup {loc}
           /\ log' = CASE step = "mkdir" ->
                            Append(log, LogLine("Created directory", "", relativePath))
                       [] step \in {"absent", "ok"} ->
                            Append(log, LogLine("Decrypted file", "", relativePath))
                       [] OTHER -> log
           /\ delta' = IF step = "skip" THEN delta ELSE Changed("many", "", EmptyContent)
    /\ cursor' = cursor + 1
    /\ UNCHANGED <<sep, encDir, enumeration, opts, encryptions, op, collapsed, srcExists, storeVars, fsDirectory, currDirectory, srcDirents, pc,
                   masterPwd, written, removed, calls>>

\* decrypt: fs.mkdirSync throws, or the write stream of decryptFileToFile
\* emits an 'error' nobody listens to, because the directory fullName is to
\* be created in does not exist
DecryptThrows ==
    /\ pc = "decrypt"
    /\ cursor <= Len(fsDirectory.dirents)
    /\ DirentStep(fsDirectory.dirents[cursor]) = "throw"
    /\ pc' = "crashed"
    /\ UNCHANGED <<sep, encDir, enumeration, opts, encryptions, op, collapsed, delta, fsVars, storeVars, fsDirectory, currDirectory, srcDirents, cursor,
                   masterPwd, log, written, removed, touched, calls>>

\* decrypt: the blob of the file does not open under the file's password.
\* createWriteStream has emptied the target; decipher's 'error' is logged,
\* unzip's is not, and the promise of decryptFileToStream is never resolved
DecryptHangs(said) ==
    /\ pc = "decrypt"
    /\ cursor <= Len(fsDirectory.dirents)
    /\ DirentStep(fsDirectory.dirents[cursor]) = "fail"
    /\ LET loc == fsDirectory.dirents[cursor].path[2]
       IN  /\ fs' = [fs EXCEPT ![loc] = FileEnt(EmptyContent)]
           /\ touched' = touched \cup {loc}
    /\ log' = IF said THEN Append(log, LogLine("Incorrect password", "", NoPath)) ELSE log
    /\ pc' = "hung"
    /\ delta' = Changed("many", "", EmptyContent)
    /\ UNCHANGED <<sep, encDir, enumeration, opts, encryptions, op, collapsed, srcExists, storeVars, fsDirectory, currDirectory, srcDirents, cursor,
                   masterPwd, written, removed, calls>>

\* decrypt: the loop is over
FinishDecrypt ==
    /\ pc = "decrypt"
    /\ cursor > Len(fsDirectory.dirents)
    /\ pc' = "decrypted"
    /\ UNCHANGED <<sep, encDir, enumeration, opts, encryptions, op, collapsed, delta, fsVars, storeVars, fsDirectory, currDirectory, srcDirents, cursor,
                   masterPwd, log, written, removed, touched, calls>>

\* ------------------------------------------------------------------- Spec
\* the password the store is kept under
Master == <<"master", 1>>

Environment ==
    \/ \E loc \in FileLocs, c \in Contents : EnvWriteFile(loc, c)
    \/ \E loc \in DirLocs : EnvMkDir(loc)
    \/ \E loc \in Locs : EnvRemove(loc)
    \/ EnvToggleSrcDir
    \/ NewCryptDir

Engine ==
    \/ EncryptDirent
    \/ FinishEncrypt
    \/ DecryptDirent
    \/ DecryptThrows
    \/ FinishDecrypt

\* one master password, nobody damages the store
Next ==
    \/ Environment
    \/ StartEncrypt(Master)
    \/ StartDecrypt(Master)
    \/ Engine

Spec == Init /\ [][Next]_vars

\* ------------------------------------------------------------- FaultSpec
\* a master password the store is not kept under
Other == <<"master", 2>>

\* blobs are damaged, and a caller passes a wrong master password
Faults ==
    \/ \E id \in Ids : EnvCorruptBlob(id)
    \/ \E said \in BOOLEAN : LoadEntriesHangs(Other, said)
    \/ \E said \in BOOLEAN : DecryptHangs(said)

\* what the event loop runs whenever it can: the continuation of the call
\* that is awaiting
Continuation ==
    \/ Engine
    \/ \E said \in BOOLEAN : DecryptHangs(said)

\* srcDir is there and holds files only
FaultNext ==
    \/ \E loc \in FileLocs, c \in Contents : EnvWriteFile(loc, c)
    \/ \E loc \in FileLocs : EnvRemove(loc)
    \/ NewCryptDir
    \/ StartEncrypt(Master)
    \/ StartDecrypt(Master)
    \/ Engine
    \/ Faults

FaultSpec == Init /\ [][FaultNext]_vars /\ WF_vars(Continuation)

\* -------------------------------------------------------------- LockSpec
\* documents of srcDir are opened and closed between encrypt calls: lock
\* files come and go
LockNext ==
    \/ \E loc \in FileLocs \cup LockLocs, c \in Contents : EnvWriteFile(loc, c)
    \/ \E loc \in DirLocs : EnvMkDir(loc)
    \/ \E loc \in Locs : EnvRemove(loc)
    \/ NewCryptDir
    \/ StartEncrypt(Master)
    \/ EncryptDirent
    \/ FinishEncrypt

LockSpec == Init /\ [][LockNext]_vars

\* ------------------------------------------------------------ FilterSpec
\* encrypt is called with and without a filter pattern
FilterNext ==
    \/ \E loc \in FileLocs, c \in Contents : EnvWriteFile(loc, c)
    \/ \E loc \in DirLocs : EnvMkDir(loc)
    \/ \E loc \in Locs : EnvRemove(loc)
    \/ NewCryptDir
    \/ \E o \in Opts : StartEncryptOpts(Master, o)
    \/ EncryptDirent
    \/ FinishEncrypt

FilterSpec == Init /\ [][FilterNext]_vars

\* ---------------------------------------------------------- LifetimeSpec
\* one store from its first encrypt run on, with the encryptions counted
LifetimeInit ==
    /\ CryptDirInit
    /\ encDir = ExplicitEncDir
    /\ encryptions = [c \in Contents |-> 0]
    /\ op = NoOp

\* srcDir changes between encrypt runs
LifetimeNext ==
    \/ \E loc \in FileLocs, c \in Contents : EnvWriteFile(loc, c)
    \/ \E loc \in DirLocs : EnvMkDir(loc)
    \/ \E loc \in Locs : EnvRemove(loc)
    \/ NewCryptDir
    \/ StartEncrypt(Master)
    \/ EncryptDirent
    \/ FinishEncrypt

LifetimeSpec == LifetimeInit /\ [][LifetimeNext]_vars

\* ------------------------------------------------------------ InsideSpec
\* new CryptDir(srcDir): encDir is srcDir/.cryptdir
InsideInit ==
    /\ CryptDirInit
    /\ encDir = defaultEncDir
    /\ encryptions = Uncounted
    /\ op = NoOp

\* encrypt runs over a srcDir that holds its encDir and a file next to it
InsideNext ==
    \/ \E loc \in FileLocs \cup LockLocs \cup SiblingLocs, c \in Contents : EnvWriteFile(loc, c)
    \/ \E loc \in Locs : EnvRemove(loc)
    \/ NewCryptDir
    \/ StartEncrypt(Master)
    \/ EncryptDirent
    \/ FinishEncrypt

InsideSpec == InsideInit /\ [][InsideNext]_vars

\* ---------------------------------------------------------- DanglingSpec
\* decrypt runs over stores whose Manifest names FileObjects it lacks
DanglingNext ==
    \/ \E loc \in FileLocs, c \in Contents : EnvWriteFile(loc, c)
    \/ \E loc \in FileLocs : EnvRemove(loc)
    \/ \E i \in 1..MaxIds : EnvDropFileObject(i)
    \/ NewCryptDir
    \/ StartEncrypt(Master)
    \/ StartDecrypt(Master)
    \/ Engine

DanglingSpec == Init /\ [][DanglingNext]_vars

\* ------------------------------------------------------------ AbsentSpec
\* decrypt runs over stores that lack blobs their Manifest names
AbsentNext ==
    \/ \E loc \in FileLocs, c \in Contents : EnvWriteFile(loc, c)
    \/ \E loc \in FileLocs : EnvRemove(loc)
    \/ \E id \in Ids : EnvRemoveBlob(id)
    \/ NewCryptDir
    \/ StartEncrypt(Master)
    \/ StartDecrypt(Master)
    \/ Engine

AbsentSpec == Init /\ [][AbsentNext]_vars

\* ---------------------------------------------------------- WrongPwdSpec
\* encrypt is called under the master password of the store and under
\* another one
WrongPwdNext ==
    \/ \E loc \in FileLocs, c \in Contents : EnvWriteFile(loc, c)
    \/ \E loc \in FileLocs : EnvRemove(loc)
    \/ NewCryptDir
    \/ \E pwd \in {Master, Other} : StartEncrypt(pwd)
    \/ \E pwd \in {Master, Other}, said \in BOOLEAN : LoadEntriesHangs(pwd, said)
    \/ EncryptDirent
    \/ FinishEncrypt

WrongPwdSpec == Init /\ [][WrongPwdNext]_vars

\* ------------------------------------------------------------ NestedSpec
\* srcDir holds directories with files in them, one of the directories
\* named as a lock file
NestedNext ==
    \/ \E loc \in NestedLocs, c \in Contents : EnvWriteFile(loc, c)
    \/ \E loc \in DirLocs \cup LockDirLocs : EnvMkDir(loc)
    \/ \E loc \in Locs : EnvRemove(loc)
    \/ NewCryptDir
    \/ StartEncrypt(Master)
    \/ EncryptDirent
    \/ FinishEncrypt

NestedSpec == Init /\ [][NestedNext]_vars

\* ------------------------------------------------------------- OrderSpec
\* encrypt runs over a srcDir with names that differ in case only, on
\* filesystems that enumerate them in one order or the other
OrderNext ==
    \/ \E loc \in FileLocs \cup CaseLocs, c \in Contents : EnvWriteFile(loc, c)
    \/ \E loc \in Locs : EnvRemove(loc)
    \/ EnvReorder
    \/ NewCryptDir
    \/ StartEncrypt(Master)
    \/ EncryptDirent
    \/ FinishEncrypt

OrderSpec == Init /\ [][OrderNext]_vars

\* ---------------------------------------------- AESFileCryptor, by stream
\* the bytes of a file are 0..MaxByte, a file has at most MaxLen of them
MaxByte == 1
MaxLen == 2

\* crypto.randomBytes(16)
IvLength == 16
\* #getBytes(srcFile, { end: 15 })
IvEnd == 15
\* #getReadStream(srcFile, { start: 16 })
DataStart == 16

Bytes == 0..MaxByte
ByteStrings == UNION {[1..n -> Bytes] : n \in 0..MaxLen}

\* what zlib puts on a stream: a header, the literals, the checksum
GzItem(t, v) == [t |-> t, v |-> v]
\* what a decipher makes of a block it has not the key or the chain for
Junk == GzItem("junk", 0)
\* the padding block the cipher's final() adds
Pad == GzItem("pad", 0)

RECURSIVE Crc32(_)
Crc32(bytes) ==
    IF Len(bytes) = 0 THEN 0 ELSE Head(bytes) + 1 + 2 * Crc32(Tail(bytes))

\* createGzip(): header, literals, checksum
createGzip(bytes) ==
    <<GzItem("hdr", 0)>> \o [i \in 1..Len(bytes) |-> GzItem("lit", bytes[i])]
        \o <<GzItem("crc", Crc32(bytes))>>

\* the literals of a gzip stream
Literals(items) == [i \in 1..(Len(items) - 2) |-> items[i + 1].v]

\* createUnzip() emits 'error' unless header, literals and checksum are right
UnzipOk(items) ==
    /\ Len(items) >= 2
    /\ items[1].t = "hdr"
    /\ items[Len(items)].t = "crc"
    /\ \A i \in 2..(Len(items) - 1) : items[i].t = "lit"
    /\ items[Len(items)].v = Crc32(Literals(items))

NoKey == <<"none", <<"none", 0>>>>

\* one byte of the initialization vector, as it lies in a file
IvItem(r) == [t |-> "iv", k |-> NoKey, n |-> r, c |-> <<"none", 0>>, p |-> Pad]

\* what the next block of a CBC chain is chained to
Tag(item) == <<item.t, item.n>>

\* crypto.createCipheriv('aes256', key, initVect) over a stream, final() included:
\* block i carries its plaintext under the key, chained to the block before it
createCipheriv(key, r, plain) ==
    LET padded == Append(plain, Pad)
    IN  [i \in 1..Len(padded) |->
            [t |-> "ct", k |-> key, n |-> i,
             c |-> IF i = 1 THEN Tag(IvItem(r)) ELSE <<"ct", i - 1>>,
             p |-> padded[i]]]

\* the initialization vector createDecipheriv is given
IvTag(initVect) ==
    IF /\ Len(initVect) = IvLength
       /\ \A i \in 1..Len(initVect) : initVect[i] = IvItem(initVect[1].n)
    THEN Tag(initVect[1])
    ELSE <<"none", 0>>

\* crypto.createDecipheriv('aes256', key, initVect) over a stream: a block gives
\* its plaintext under its key and behind the block it was chained to
createDecipheriv(key, initVect, data) ==
    [i \in 1..Len(data) |->
        IF /\ data[i].t = "ct"
           /\ data[i].k = key
           /\ data[i].c = (IF i = 1 THEN IvTag(initVect) ELSE Tag(data[i - 1]))
        THEN data[i].p
        ELSE Junk]

\* the chunks a stream arrives in: one, or two cut behind item s
Chunks(items, s) ==
    IF s >= Len(items) THEN <<items>>
    ELSE <<SubSeq(items, 1, s), SubSeq(items, s + 1, Len(items))>>

\* new AttachInitVect(initVect)
AttachInitVect(initVect) ==
    [initVect |-> initVect, attached |-> FALSE, pushed |-> <<>>]

\* AttachInitVect._transform without its attached flag
transform_EveryChunk(this, chunk) ==
    [this EXCEPT !.pushed = this.pushed \o this.initVect \o chunk]

\* AttachInitVect._transform
transform(this, chunk) ==
    [this EXCEPT !.attached = TRUE,
                 !.pushed = this.pushed
                                \o (IF ~this.attached THEN this.initVect ELSE <<>>)
                                \o chunk]

RECURSIVE Pipe(_, _)
Pipe(this, chunks) ==
    IF Len(chunks) = 0 THEN this
    ELSE Pipe(transform(this, Head(chunks)), Tail(chunks))

\* readStream.pipe(gzip).pipe(cipher).pipe(attachInitVect).pipe(writeStream):
\* the bytes of tgtFile
PipeToFile(password, r, s, bytes) ==
    Pipe(AttachInitVect([i \in 1..IvLength |-> IvItem(r)]),
         Chunks(createCipheriv(getCipherKey(password), r, createGzip(bytes)), s)).pushed

\* #getBytes(file, { end }): the last chunk read, the bytes 0..end
getBytes(file, end) ==
    SubSeq(file, 1, IF end + 1 <= Len(file) THEN end + 1 ELSE Len(file))

\* #getReadStream(file, { start })
getReadStream(file, start) == SubSeq(file, start + 1, Len(file))

\* encryptStreamToFile(readStream, tgtFile): resolves on 'finish'
CryptorEncrypt(r, s) ==
    /\ op.stage = "new"
    /\ op' = [op EXCEPT !.stage = "encrypted",
                        !.present = TRUE,
                        !.file = PipeToFile(op.password, r, s, op.content)]
    /\ UNCHANGED <<sep, encDir, enumeration, opts, encryptions, srcExists, fs, encExists, manifestBlob, blobs, fsDirectory,
                   currDirectory, srcDirents, cursor, pc, masterPwd, log, written,
                   removed, touched, calls, delta, collapsed>>

\* encryptStreamToFile(readStream, tgtFile) when readStream emits 'error':
\* createWriteStream has created tgtFile, n items have reached it, gzip and
\* cipher are never ended, and nobody listens to the 'error': the promise is
\* left pending, or the process ends on the unhandled event
CryptorEncryptFails(r, n, how) ==
    /\ op.stage = "new"
    /\ n <= Len(PipeToFile(op.password, r, MaxLen + 3, op.content)) - 2
    /\ op' = [op EXCEPT !.stage = "failed",
                        !.present = TRUE,
                        !.file = SubSeq(PipeToFile(op.password, r, MaxLen + 3, op.content), 1, n),
                        !.outcome = how]
    /\ UNCHANGED <<sep, encDir, enumeration, opts, encryptions, srcExists, fs, encExists, manifestBlob, blobs, fsDirectory,
                   currDirectory, srcDirents, cursor, pc, masterPwd, log, written,
                   removed, touched, calls, delta, collapsed>>

\* decryptFileToStream(srcFile, writeStream) under password q: resolves at
\* once without srcFile, and on 'finish' of writeStream with it.  A last
\* block that is not the padding makes decipher emit 'error' ('Incorrect
\* password' is logged) unless it passes for padding, or decipher is never
\* ended because unzip has failed before: then said is FALSE.  Neither
\* 'error' handler ends writeStream, so the promise is left pending
CryptorDecrypt(q, said) ==
    /\ op.stage \in {"new", "encrypted"}
    /\ LET initVect == getBytes(op.file, IvEnd)
           data == getReadStream(op.file, DataStart)
           plain == createDecipheriv(getCipherKey(q), initVect, data)
           padded == Len(plain) > 0 /\ plain[Len(plain)] = Pad
           zipped == SubSeq(plain, 1, Len(plain) - 1)
       IN  op' = [op EXCEPT
                !.stage = "decrypted",
                !.decPassword = q,
                !.out = IF op.present /\ padded /\ UnzipOk(zipped)
                        THEN Literals(zipped) ELSE <<>>,
                !.outcome = IF ~op.present \/ (padded /\ UnzipOk(zipped))
                            THEN "done" ELSE "pending",
                !.said = op.present /\ ~padded /\ said]
    /\ UNCHANGED <<sep, encDir, enumeration, opts, encryptions, srcExists, fs, encExists, manifestBlob, blobs, fsDirectory,
                   currDirectory, srcDirents, cursor, pc, masterPwd, log, written,
                   removed, touched, calls, delta, collapsed>>

\* an AESFileCryptor for a password, and a file to encrypt
CryptorInit ==
    /\ CryptDirInit
    /\ encDir = ExplicitEncDir
    /\ encryptions = Uncounted
    /\ op \in {[NoOp EXCEPT !.stage = "new", !.password = pw, !.content = c] :
                    pw \in MasterPwds, c \in ByteStrings}

CryptorNext ==
    \/ \E r \in Bytes, s \in 1..(MaxLen + 3) : CryptorEncrypt(r, s)
    \/ \E r \in Bytes, n \in 0..(IvLength + MaxLen + 3), how \in {"pending", "crashed"} :
            CryptorEncryptFails(r, n, how)
    \/ \E q \in MasterPwds, said \in BOOLEAN : CryptorDecrypt(q, said)

CryptorSpec == CryptorInit /\ [][CryptorNext]_vars

\* ----------------------------------------------------------------- claims
\* the Manifest as it is persisted in encDir
Manifest == manifestBlob.data

\* the path encrypt records for an entry of srcDir
PathOf(loc) == getRelativePath(<<1, loc>>)

\* an encrypt call over a non-empty srcDir has just completed
EncryptDone == pc = "encrypted" /\ Len(srcDirents) > 0

\* the objectId the Manifest records for a path: FSDirectory's own lookup
ObjectIdOf(dir, path) ==
    IF findDirent(dir, path) = 0 THEN Undefined
    ELSE dir.dirents[findDirent(dir, path)].fileId

\* the lines of a log that report a change of the tree
ChangeLines(lines) ==
    SelectSeq(lines, LAMBDA l : l.msg \in {"Added", "Updated", "Removed"})

\* C1: after an encrypt run completes, two source files with identical
\* content have PathEntries with the same objectId, the Manifest holds exactly
\* one FileObject with that contentHash and the store exactly one blob for it
C1_Dedup ==
    EncryptDone =>
        \A l1, l2 \in FileLocs :
            (l1 # l2 /\ fs[l1].kind = "file" /\ fs[l2] = fs[l1]) =>
                /\ ObjectIdOf(Manifest, PathOf(l1)) # Undefined
                /\ ObjectIdOf(Manifest, PathOf(l1)) = ObjectIdOf(Manifest, PathOf(l2))
                /\ Cardinality({i \in 1..Len(Manifest.files) :
                        Manifest.files[i].fileHash = calcFileHash(fs[l1].data)}) = 1
                /\ Cardinality({i \in Ids :
                        blobs[i].present /\ blobs[i].data = fs[l1].data}) = 1

\* C2: an encrypt call that follows a completed encrypt call with no change
\* of srcDir in between logs no Added / Updated / Removed line and writes and
\* deletes nothing in encDir
C2_IdempotentResync ==
    [][(delta.kind = "none" /\ pc' = "encrypted" /\ (pc = "encrypt" \/ calls' = calls + 1)) =>
            (ChangeLines(log') = <<>> /\ written' = {} /\ removed' = {})]_vars

\* C3: after source changes each followed by a completed encrypt run over a
\* non-empty srcDir, the files of encDir are the sentinel and exactly the
\* objects of the persisted Manifest
C3_StoreExactness ==
    (EncryptDone /\ ~collapsed) =>
        /\ encExists
        /\ manifestBlob.present
        /\ {i \in Ids : blobs[i].present}
             = {Manifest.files[i].fileId : i \in 1..Len(Manifest.files)}

\* an encrypt run over a non-empty srcDir has deleted an obsolete blob and
\* left others in encDir
C3_Witness ==
    /\ EncryptDone
    /\ ~collapsed
    /\ removed # {}
    /\ \E i \in Ids : blobs[i].present

\* C4: after changing the bytes of exactly one file of a synced tree, encrypt
\* logs one "Updated" line for that path and nothing else, writes and deletes
\* no blob of another path's content, and leaves no blob of the old content
\* unless another path still has it
C4_IncrementalUpdate ==
    [][(delta.kind = "modified" /\ pc = "encrypt" /\ pc' = "encrypted") =>
            /\ log' = <<LogLine("Updated", "file", PathOf(delta.loc))>>
            /\ \A l \in FileLocs \ {delta.loc} : \A i \in Ids :
                    (fs[l].kind = "file" /\ blobs[i].present /\ blobs[i].data = fs[l].data
                        /\ fs[l].data # fs[delta.loc].data)
                    => (i \notin written' /\ i \notin removed' /\ blobs'[i] = blobs[i])
            /\ (\A l \in FileLocs \ {delta.loc} : fs[l] # FileEnt(delta.old))
                    => \A i \in Ids : ~(blobs'[i].present /\ blobs'[i].data = delta.old)]_vars

\* C5: after removing one file of a synced tree, encrypt logs one "Removed"
\* line, for that path, and deletes the file's blob unless a surviving path
\* has the same content, in which case the blob is kept (stated for the runs
\* that still find an entry in srcDir)
C5_DeletionPropagation ==
    [][(delta.kind = "removed" /\ pc = "encrypt" /\ pc' = "encrypted") =>
            /\ SelectSeq(log', LAMBDA l : l.msg = "Removed")
                    = <<LogLine("Removed", "file", PathOf(delta.loc))>>
            /\ IF \E l \in FileLocs : fs[l] = FileEnt(delta.old)
               THEN \E i \in Ids : blobs'[i].present /\ blobs'[i].data = delta.old
               ELSE \A i \in Ids : ~(blobs'[i].present /\ blobs'[i].data = delta.old)]_vars

\* the file the Manifest records for a fileId, as FSDirectory finds it
FileOfId(dir, fileId) == dir.files[findFileById(dir, fileId)]

\* the entry of srcDir a PathEntry is restored to is what the entry says
Restored(dir, dirent) ==
    LET fullName == JoinSrcDir(dirent.path)
    IN  /\ existsSync(fullName)
        /\ IF dirent.fileId = Undefined
           THEN fs[fullName[2]].kind = "dir"
           ELSE /\ fs[fullName[2]].kind = "file"
                /\ findFileById(dir, dirent.fileId) # 0
                /\ calcFileHash(fs[fullName[2]].data) = FileOfId(dir, dirent.fileId).fileHash

\* decrypt has completed against a store encrypt produced under the same
\* master password
DecryptDone ==
    pc = "decrypted" /\ encExists /\ manifestBlob.present
        /\ CanDecrypt(masterPwd, manifestBlob)

\* C9: after decrypt completes against a store produced by encrypt under the
\* same master password, every directory PathEntry of the Manifest is a
\* directory of srcDir and every file PathEntry a file with the contentHash of
\* its FileObject
C9_RestoreConvergence ==
    DecryptDone =>
        \A i \in 1..Len(Manifest.dirents) : Restored(Manifest, Manifest.dirents[i])

\* the dirent the loop of decrypt is at is a file that is already in srcDir
\* with the contentHash its FileObject records
AtMatchingFile ==
    /\ pc = "decrypt"
    /\ cursor <= Len(fsDirectory.dirents)
    /\ fsDirectory.dirents[cursor].fileId # Undefined
    /\ Restored(fsDirectory, fsDirectory.dirents[cursor])

\* C10: during decrypt, a destination file whose content hash equals the
\* contentHash of its FileObject is not written and produces no log line
C10_RestoreSkip ==
    [][AtMatchingFile => (fs' = fs /\ touched' = touched /\ log' = log)]_vars

\* a decrypt call went over a file that was already restored, and completed
\* having written and logged nothing
C10_Witness ==
    /\ pc = "decrypted"
    /\ \E i \in 1..Len(fsDirectory.dirents) :
            /\ fsDirectory.dirents[i].fileId # Undefined
            /\ Restored(fsDirectory, fsDirectory.dirents[i])
    /\ touched = {}
    /\ log = <<>>

\* a blob was decrypted under the password it was encrypted under
SameKeyDecrypted ==
    op.stage = "decrypted" /\ op.present /\ op.decPassword = op.password

\* C6: encrypting content C to a blob under passphrase P and decrypting the
\* blob under P delivers exactly C and completes
C6_RoundTrip ==
    SameKeyDecrypted => (op.outcome = "done" /\ op.out = op.content)

\* a file of MaxLen bytes went through encryption and decryption
C6_Witness ==
    SameKeyDecrypted /\ Len(op.content) > 1 /\ op.out = op.content

\* a blob was decrypted under another password than it was encrypted under
WrongKeyDecrypted ==
    op.stage = "decrypted" /\ op.present /\ op.decPassword # op.password

\* C7: decrypting a blob under another passphrase than it was encrypted under
\* ends (the caller's promise is settled), reports the incorrect password, and
\* is never done with a plaintext that differs from the original
C7_WrongKeyDetection ==
    WrongKeyDecrypted =>
        /\ op.outcome # "pending"
        /\ op.said
        /\ ~(op.outcome = "done" /\ op.out # op.content)

\* the loop of decrypt is at a file entry whose blob does not open under the
\* entry's secret
FailingAt(k) ==
    /\ pc = "decrypt"
    /\ cursor = k
    /\ k <= Len(fsDirectory.dirents)
    /\ DirentStep(fsDirectory.dirents[k]) = "fail"

\* the transfer of the file entry the loop of decrypt is at has failed, and
\* the entry is not the last
TransferFailed ==
    pc = "hung" /\ cursor >= 1 /\ cursor < Len(fsDirectory.dirents)

\* C8: when the transfer of one file entry fails during a traversal, the
\* engine proceeds to the next entry: the call that awaits the transfer can
\* continue
C8_FailureIsolation ==
    TransferFailed => ENABLED Continuation

\* C8, as a property of behaviours in which the event loop runs every
\* continuation it can: from a failing entry the loop gets to a later one
C8_EventuallyProceeds ==
    \A k \in 1..MaxDirents :
        FailingAt(k) ~> (pc \in {"decrypt", "decrypted"} /\ cursor > k)

\* srcDir exists and holds nothing but names the listing leaves out
NothingEligible ==
    srcExists /\ \A l \in Locs \ LockLocs : fs[l].kind = "none"

\* the step that takes an encrypt call up to its loop, or to its end
EncryptCalled ==
    calls' = calls + 1 /\ pc' \in {"encrypt", "encrypted"}

\* C11: when srcDir exists, nothing in it is eligible (it is empty, or holds
\* excluded names only) and encDir exists, encrypt deletes encDir with all its
\* files, the Manifest blob among them, logs the removal and writes nothing
C11_EmptySourceCollapse ==
    [][(NothingEligible /\ encExists /\ EncryptCalled) =>
            /\ pc' = "encrypted"
            /\ ~encExists'
            /\ ~manifestBlob'.present
            /\ \A i \in Ids : ~blobs'[i].present
            /\ removed' = EncDirFiles
            /\ log' = <<LogLine("Removed directory", "", NoPath)>>
            /\ written' = {}]_vars

\* encrypt has run over a srcDir that holds a lock file only and has deleted
\* an encDir with a Manifest blob and a file blob
C11_Witness ==
    /\ pc = "encrypted"
    /\ NothingEligible
    /\ \E l \in LockLocs : fs[l].kind = "file"
    /\ ~encExists
    /\ NilUuid \in removed
    /\ removed # {NilUuid}
    /\ log = <<LogLine("Removed directory", "", NoPath)>>

\* C12: when srcDir does not exist, encrypt logs the invalid source directory
\* and returns: encDir is neither created nor removed, no file of encDir is
\* written or deleted, and srcDir is left as it is
C12_MissingSourceRoot ==
    [][(~srcExists /\ EncryptCalled) =>
            /\ pc' = "encrypted"
            /\ log' = <<LogLine("Invalid source directory", "", NoPath)>>
            /\ encExists' = encExists
            /\ manifestBlob' = manifestBlob
            /\ blobs' = blobs
            /\ written' = {}
            /\ removed' = {}
            /\ touched' = {}
            /\ fs' = fs
            /\ srcExists' = srcExists]_vars

\* encrypt has run without srcDir and has left an encDir with a Manifest blob
\* and a file blob as it was
C12_Witness ==
    /\ pc = "encrypted"
    /\ ~srcExists
    /\ log = <<LogLine("Invalid source directory", "", NoPath)>>
    /\ encExists
    /\ manifestBlob.present
    /\ \E i \in Ids : blobs[i].present

\* no two PathEntries of a Manifest have the same path
UniquePaths(dir) ==
    \A i, j \in 1..Len(dir.dirents) :
        i # j => dir.dirents[i].path # dir.dirents[j].path

\* C13: after any sequence of encrypt and decrypt calls, repeated calls on one
\* instance included, no two PathEntries of the Manifest the instance holds,
\* and none of the Manifest that is persisted, have the same path
C13_PathUniqueness ==
    pc \in {"encrypted", "decrypted"} =>
        (UniquePaths(fsDirectory) /\ UniquePaths(Manifest))

\* every PathEntry with an objectId has its FileObject, and every FileObject
\* a PathEntry that names it
ReferencesMatch(dir) ==
    /\ \A i \in 1..Len(dir.dirents) :
            dir.dirents[i].fileId # Undefined =>
                \E k \in 1..Len(dir.files) : dir.files[k].fileId = dir.dirents[i].fileId
    /\ \A k \in 1..Len(dir.files) :
            \E i \in 1..Len(dir.dirents) : dir.dirents[i].fileId = dir.files[k].fileId

\* C14: in every Manifest encrypt has persisted, each PathEntry that has an
\* objectId names a FileObject of the Manifest's files, and each FileObject of
\* files is named by at least one PathEntry
C14_ReferentialIntegrity ==
    manifestBlob.present => ReferencesMatch(Manifest)

\* a persisted Manifest in which two PathEntries share one FileObject
C14_Witness ==
    /\ pc = "encrypted"
    /\ NilUuid \in written
    /\ Len(Manifest.files) >= 1
    /\ \E i, j \in 1..Len(Manifest.dirents) :
            /\ i # j
            /\ Manifest.dirents[i].path # Manifest.dirents[j].path
            /\ Manifest.dirents[i].fileId # Undefined
            /\ Manifest.dirents[i].fileId = Manifest.dirents[j].fileId

\* the cipher keys the master passwords give
MasterKeys == {getCipherKey(p) : p \in MasterPwds}

\* the blob of every FileObject of dir that has one in encDir is encrypted
\* under the secret the FileObject records
KeyedBySecret(dir) ==
    \A k \in 1..Len(dir.files) :
        blobs[dir.files[k].fileId].present =>
            blobs[dir.files[k].fileId].key = getCipherKey(dir.files[k].pwd)

\* C15: the Manifest blob is encrypted under the master password of the call
\* that wrote it; no file blob is encrypted under a master password, every
\* file blob is encrypted under the secret of its FileObject, and the secrets
\* are part of nothing that is written but the encrypted Manifest
C15_TwoTierKeys ==
    /\ manifestBlob.present => manifestBlob.key \in MasterKeys
    /\ NilUuid \in written => manifestBlob.key = getCipherKey(masterPwd)
    /\ \A i \in Ids : blobs[i].present =>
            /\ blobs[i].key \notin MasterKeys
            /\ blobs[i].data \in Contents
    /\ KeyedBySecret(Manifest)
    /\ KeyedBySecret(fsDirectory)
    /\ \A i \in 1..Len(log) : DOMAIN log[i] = {"msg", "kind", "path"}

\* an encrypt run has written a file blob and the Manifest that records the
\* blob's secret
C15_Witness ==
    /\ pc = "encrypted"
    /\ NilUuid \in written
    /\ \E k \in 1..Len(Manifest.files) :
            /\ Manifest.files[k].fileId \in written
            /\ blobs[Manifest.files[k].fileId].present
            /\ blobs[Manifest.files[k].fileId].key = getCipherKey(Manifest.files[k].pwd)

\* an encrypt call that was given a filter pattern is running or has just
\* completed
Filtered ==
    pc \in {"encrypt", "encrypted"} /\ srcExists /\ opts.filter # NoFilter

\* the entries of srcDir the pattern of the call matches
Matching ==
    {l \in Locs : fs[l].kind # "none" /\ RegExpTest(opts.filter, l)}

StringifyEntries(dir) ==
    <<"dirents", Stringify(dir.dirents), "files", dir.files>>

\* C17: at the end of an encrypt run over a non-empty srcDir the Manifest
\* blob is written if and only if the serialised Manifest of the instance,
\* dirents and files together, differs from the snapshot that was loaded; the
\* comparison of the dirents alone, which decides, agrees with it
C17_PersistOnChange ==
    [][(pc = "encrypt" /\ pc' = "encrypted") =>
            /\ (NilUuid \in written')
                    <=> (StringifyEntries(fsDirectory) # StringifyEntries(currDirectory))
            /\ (NilUuid \in written') =>
                    manifestBlob' = encryptStreamToFile(masterPwd, fsDirectory)
            /\ (NilUuid \notin written') => manifestBlob' = manifestBlob
            /\ equals(fsDirectory, currDirectory.dirents)
                    <=> (StringifyEntries(fsDirectory) = StringifyEntries(currDirectory))]_vars

\* an encrypt run over a non-empty srcDir has found the loaded snapshot
\* unchanged and has not written the Manifest blob
C17_Witness ==
    /\ EncryptDone
    /\ manifestBlob.present
    /\ NilUuid \notin written
    /\ Len(fsDirectory.files) >= 1
    /\ fsDirectory = currDirectory

Stored(c) ==
    \E i \in Ids : blobs[i].present /\ blobs[i].data = c

PathsOf(dir) ==
    [i \in 1..Len(dir.dirents) |-> dir.dirents[i].path]

\* C19: when an encrypt call starts, the Manifest of the session, the
\* instance's fsDirectory, is empty, also on an instance that has run encrypt
\* or decrypt before; so at the end of a run over a non-empty srcDir it
\* describes the entries walked in that run and no other
C19_FreshSessionManifest ==
    [][/\ EncryptCalled => fsDirectory = EmptyEntries
       /\ (pc = "encrypt" /\ pc' = "encrypted") =>
            PathsOf(fsDirectory') = [i \in 1..Len(srcDirents) |-> PathOf(srcDirents[i])]]_vars

\* the pass of the loop of encrypt over one entry of the listing
AtSrcDirent ==
    pc = "encrypt" /\ cursor <= Len(srcDirents)

\* the objectIds the previous snapshot records for a path
PreviousIds(path) ==
    {currDirectory.dirents[i].fileId :
        i \in {j \in 1..Len(currDirectory.dirents) : currDirectory.dirents[j].path = path}}

\* the messages of the lines a step adds to the log
NewMsgs ==
    {log'[i].msg : i \in (Len(log) + 1)..Len(log')}

\* C20: during encrypt a path produces the line "Added" exactly when the
\* previous snapshot has no PathEntry for it, the line "Updated" exactly when
\* the previous snapshot has a PathEntry for it with another objectId, and no
\* line when the previous snapshot records the same objectId for it
C20_AddedUpdatedLogging ==
    [][AtSrcDirent =>
            LET path == PathOf(srcDirents[cursor])
                objectId == fsDirectory'.dirents[Len(fsDirectory'.dirents)].fileId
            IN  /\ ("Added" \in NewMsgs) <=> (PreviousIds(path) = {})
                /\ ("Updated" \in NewMsgs) <=> (\E id \in PreviousIds(path) : id # objectId)
                /\ (objectId \in PreviousIds(path)) => (log' = log)
                /\ \A i \in (Len(log) + 1)..Len(log') : log'[i].path = path]_vars

\* the complete blobs of the content under the password
CompleteBlobs ==
    {PipeToFile(op.password, r, MaxLen + 3, op.content) : r \in Bytes}

\* C21: when a stage of the encryption to a target fails before completion,
\* no partial file is left at the target (which did not exist before: it does
\* not exist, or holds the complete blob), and the call completes and reports
\* the failure
C21_AtomicBlobWrite ==
    op.stage = "failed" =>
        /\ ~op.present \/ op.file \in CompleteBlobs
        /\ op.outcome = "rejected"

\* the entries of srcDir that are neither encDir, nor in encDir, nor named
\* as the exclusion filter says
Eligible ==
    {l \in Locs : fs[l].kind # "none" /\ l \notin LockLocs}

\* C22: encrypt lists, and records a PathEntry for, every entry of srcDir
\* except the store directory, the entries in it and the entries whose own
\* name matches the exclusion filter; an entry outside the store directory
\* whose path begins with the store directory's path is listed and recorded
C22_ExclusionExactness ==
    [][/\ (EncryptCalled /\ srcExists) =>
            {srcDirents'[i] : i \in 1..Len(srcDirents')} = Eligible
       /\ (pc = "encrypt" /\ pc' = "encrypted") =>
            \A l \in Eligible :
                \E i \in 1..Len(fsDirectory'.dirents) :
                    fsDirectory'.dirents[i].path = PathOf(l)]_vars

\* the listing encrypt would take of srcDir as it is if the filesystem
\* enumerated its names in the order e
ListingBy(e) ==
    SelectSeq(SortBy(readdirSync, e),
              LAMBDA l : ~StartsWithEncDir(l) /\ ~filterDirentByName(l))

\* C23: the order in which encrypt processes the entries of srcDir is the
\* same for every order in which the filesystem enumerates them, also when
\* two names differ in letter case only
C23_DeterministicOrder ==
    [][(EncryptCalled /\ srcExists) =>
            \A e \in Enumerations : srcDirents' = ListingBy(e)]_vars

\* C24: every PathEntry.path encrypt records is relative to srcDir, for
\* either path separator of the host, so that joining srcDir with it, as
\* decrypt does, addresses the entry of srcDir it was read from
C24_RelativePaths ==
    \A i \in 1..Len(fsDirectory.dirents) :
        /\ fsDirectory.dirents[i].path[1] = 0
        /\ IsInTree(JoinSrcDir(fsDirectory.dirents[i].path))

\* the dirent at position i of the loaded Manifest names a file no FileObject
\* of the Manifest carries
Dangling(i) ==
    /\ i \in 1..Len(fsDirectory.dirents)
    /\ fsDirectory.dirents[i].fileId # Undefined
    /\ findFileById(fsDirectory, fsDirectory.dirents[i].fileId) = 0

\* C25: decrypt passes over a PathEntry whose objectId matches no FileObject
\* of the loaded Manifest: nothing is written, no directory is created,
\* nothing is logged, and the loop goes on with the next entry
C25_DanglingReference ==
    [][(pc = "decrypt" /\ Dangling(cursor)) =>
            /\ fs' = fs
            /\ touched' = touched
            /\ log' = log
            /\ pc' = "decrypt"
            /\ cursor' = cursor + 1]_vars

\* decrypt has passed over a dangling PathEntry and has decrypted a file
\* after it
C25_Witness ==
    /\ pc = "decrypt"
    /\ cursor = 3
    /\ Dangling(1)
    /\ ~Dangling(2)
    /\ Len(log) = 1
    /\ log[1].msg = "Decrypted file"

\* the dirent at position i of the loaded Manifest names a FileObject whose
\* blob is not in the store
BlobAbsent(i) ==
    /\ i \in 1..Len(fsDirectory.dirents)
    /\ fsDirectory.dirents[i].fileId # Undefined
    /\ findFileById(fsDirectory, fsDirectory.dirents[i].fileId) # 0
    /\ ~(encExists /\ blobs[fsDirectory.dirents[i].fileId].present)

\* C26: decrypt at a file entry whose blob is absent from the store leaves
\* the destination as it is, neither created nor truncated, and logs no
\* 'Decrypted file' line for it
C26_AbsentBlob ==
    [][(pc = "decrypt" /\ BlobAbsent(cursor)) =>
            /\ fs' = fs
            /\ log' = log]_vars

\* a call is made under a master password that does not open the Manifest
\* blob of the store
WrongPwdCall ==
    /\ calls' = calls + 1
    /\ encExists /\ manifestBlob.present
    /\ ~CanDecrypt(masterPwd', manifestBlob)

\* C27: an encrypt call under a master password that cannot decrypt the
\* Manifest blob of the store writes and deletes nothing in the store, at
\* its start or later: no file blob, no Manifest blob, no directory
C27_WrongPassphrase ==
    [][(WrongPwdCall \/ pc = "hung") =>
            /\ encExists' = encExists
            /\ manifestBlob' = manifestBlob
            /\ blobs' = blobs
            /\ written' = {}
            /\ removed' = {}
            /\ pc' # "hung" => pc' = "idle"]_vars

\* encrypt was called under another master password than the store's, over
\* a srcDir whose file the store does not hold as it is
C27_Witness ==
    /\ pc = "hung"
    /\ masterPwd = Other
    /\ encExists /\ manifestBlob.present
    /\ CanDecrypt(Master, manifestBlob)
    /\ \E i \in Ids : blobs[i].present
    /\ \E loc \in FileLocs :
            /\ fs[loc].kind = "file"
            /\ \A i \in 1..Len(Manifest.files) :
                    Manifest.files[i].fileHash # calcFileHash(fs[loc].data)

\* C28: in every Manifest encrypt has persisted, a PathEntry of an entry
\* inside a directory of srcDir is preceded in dirents by the directory
\* PathEntry of that directory, also for a directory whose name matches the
\* exclusion filter
C28_ParentsFirst ==
    manifestBlob.present =>
        \A i \in 1..Len(Manifest.dirents) :
            ParentOf(Manifest.dirents[i].path[2]) # "" =>
                \E j \in 1..(i - 1) :
                    /\ Manifest.dirents[j].fileId = Undefined
                    /\ Manifest.dirents[j].path =
                            <<Manifest.dirents[i].path[1],
                              ParentOf(Manifest.dirents[i].path[2])>>

====
